---- MODULE Spec2Model ----
(***************************************************************************)
(* Model of sqlutils (src/sqlutils/sqlutils.go): the handle cache          *)
(* (GetGenericDB), the three query strategies built on ScanRowsToArrays    *)
(* (QueryRowsMapContext, queryResultDataContext,                           *)
(* QueryRowsMapBufferedContext) and the table restore (WriteTableContext). *)
(***************************************************************************)
EXTENDS Integers, Sequences, FiniteSets, TLC

(* ------------------------------ bounds --------------------------------- *)
NumCallers == 3
MaxCalls == 3
MaxRows == 2
MaxCols == 2
MaxWriteRows == 3
MaxWriteCols == 1
MaxTableRows == 2
IntBits == 16
MaxExecs == 3

(* ---------------------------- value domains ---------------------------- *)
Callers == 1..NumCallers
DriverNames == {"mysql", "sqlite3"}
DataSourceNames == {"dsnA", "dsnB"}
NoHandle == [id |-> 0, driverName |-> "", dataSourceName |-> ""]
NoCaller == 0
NoArgs == [driverName |-> "", dataSourceName |-> ""]
NoResult == [db |-> NoHandle, exists |-> FALSE, err |-> "none"]

VARIABLES
    \* handle cache (sqlutils.go:173-193)
    knownDBs,        \* dataSourceName -> handle, NoHandle when unmapped
    knownDBsMutex,   \* the caller holding the mutex, NoCaller when free
    cpc,             \* per caller: position inside GetGenericDB
    cargs,           \* per caller: the (driverName, dataSourceName) of its call
    cres,            \* per caller: the (db, exists, err) its call returns
    opened,          \* every handle sql.Open has created, in creation order
    openFailures,    \* dataSourceName -> number of failed sql.Open calls
    returned,        \* the (arguments, results) of every completed call
    ncalls,          \* number of calls started
    ctrace,          \* per caller: what the cache held when it locked, its open
    uncached,        \* per identity: successful returns with exists = false
    \* the data a query matches (the driver's cursor contents)
    tblColumns,      \* rows.Columns() of the cursor
    tblRecords,      \* the records the cursor delivers, in delivery order
    scanFail,        \* where rows.Scan fails on these records, if anywhere
    \* one run of a query strategy (sqlutils.go:221-354)
    strategy,        \* "streaming", "buffered", "bulk", or "none"
    retrieveColumns, \* the flag of queryResultDataContext
    qpc,             \* position of the run
    rows,            \* the *sql.Rows: "unset", "nil", "open" or "closed"
    deferClose,      \* a deferred rows.Close() is registered
    qerr,            \* the error db.QueryContext reported
    pos,             \* number of records the cursor has advanced over
    drained,         \* rows.Next() has returned false
    panicking,       \* a panic is unwinding towards the deferred recover
    err,             \* the err result of the run
    columns,         \* the columns result of queryResultDataContext
    resultData,      \* the resultData result of queryResultDataContext
    idx,             \* loop index of QueryRowsMapBufferedContext
    sinkLog,         \* the rows on_row was invoked with, in order
    sinkFail,        \* the first failure on_row returned, and when
    colCalls,        \* number of rows.Columns() calls of the run
    arrLog,          \* the positional rows ScanRowsToArrays handed to its on_row
    advances,        \* number of rows.Next() calls of the run
    injected,        \* the driver or on_row has panicked during the run
    results,         \* per strategy: what its completed run returned
    runsLeft,        \* number of runs that may still start
    \* one call of WriteTableContext (sqlutils.go:462-485)
    wColumns,        \* data.Columns
    wData,           \* data.Data
    wpc,             \* position of the call
    wi,              \* number of rows the loop has passed
    werr,            \* the err result
    execLog,         \* every db.ExecContext: its query, args, row and outcome
    dbTable,         \* the rows of the table the statements write to
    dbTable0,        \* the rows of that table when the call began
    \* one application of a pure function (sqlutils.go:42-60, 96-163, 233-239)
    pin,             \* the function applied and its arguments
    pout,            \* what it has produced so far
    ppc,             \* "ready", "encoded" or "done"
    \* execInternalContext (sqlutils.go:385-402)
    xpc,             \* "idle", "prepare", "exec" or "exit"
    xsilent,         \* the silent parameter of the call in progress
    xstmt,           \* "none", "open" or "closed": the prepared statement
    xdeferClose,     \* the defer stmt.Close() of line 396 is registered
    xpanicking,      \* a panic is unwinding the call
    xres,            \* the named result res
    xerr,            \* the named result err
    xsteps,          \* what the prepare and execution steps of the call did
    xlogged,         \* the failures the call in progress handed to log.Errore
    xlog,            \* the number of failures handed to log.Errore so far
    xreturned,       \* the calls that have returned, with what they logged
    xcalls           \* the number of calls begun

cacheVars == <<knownDBs, knownDBsMutex, cpc, cargs, cres, opened, openFailures,
               returned, ncalls, ctrace, uncached>>

dataVars == <<tblColumns, tblRecords, scanFail>>

runVars == <<strategy, retrieveColumns, qpc, rows, deferClose, qerr, pos, drained,
             panicking, err, columns, resultData, idx, sinkLog, sinkFail,
             colCalls, arrLog, advances, injected>>

queryVars == <<dataVars, runVars, results, runsLeft>>

writeVars == <<wColumns, wData, wpc, wi, werr, execLog, dbTable, dbTable0>>

pureVars == <<pin, pout, ppc>>
execVars == <<xpc, xsilent, xstmt, xdeferClose, xpanicking, xres, xerr, xsteps,
              xlogged, xlog, xreturned, xcalls>>

nonCacheVars == <<queryVars, writeVars, pureVars, execVars>>
nonQueryVars == <<cacheVars, writeVars, pureVars, execVars>>
nonWriteVars == <<cacheVars, queryVars, pureVars, execVars>>
nonPureVars == <<cacheVars, queryVars, writeVars, execVars>>
nonExecVars == <<cacheVars, queryVars, writeVars, pureVars>>

vars == <<cacheVars, queryVars, writeVars, pureVars, execVars>>

(* ============================ handle cache ============================= *)

\* a call that has not locked yet
NoTrace == [mapped |-> FALSE, handle |-> NoHandle, open |-> "none"]

\* sqlutils.go:173-174
CacheStart ==
    /\ knownDBs = [d \in DataSourceNames |-> NoHandle]
    /\ knownDBsMutex = NoCaller
    /\ cpc = [p \in Callers |-> "idle"]
    /\ cargs = [p \in Callers |-> NoArgs]
    /\ cres = [p \in Callers |-> NoResult]
    /\ opened = <<>>
    /\ openFailures = [d \in DataSourceNames |-> 0]
    /\ returned = {}
    /\ ncalls = 0
    /\ ctrace = [p \in Callers |-> NoTrace]
    /\ uncached = [d \in DataSourceNames |-> 0]

\* a caller enters GetGenericDB(driverName, dataSourceName), sqlutils.go:178
CallGetGenericDB(p, driverName, dataSourceName) ==
    /\ cpc[p] = "idle"
    /\ ncalls < MaxCalls
    /\ cpc' = [cpc EXCEPT ![p] = "lock"]
    /\ cargs' = [cargs EXCEPT ![p] = [driverName |-> driverName,
                                      dataSourceName |-> dataSourceName]]
    /\ ncalls' = ncalls + 1
    /\ UNCHANGED <<knownDBs, knownDBsMutex, cres, opened, openFailures, returned,
                   ctrace, uncached>>
    /\ UNCHANGED nonCacheVars

\* a lock that excludes nobody
MutexFreeAlways == TRUE

\* sync.Mutex: Lock() proceeds only while no caller holds the mutex
MutexFree == knownDBsMutex = NoCaller

\* knownDBsMutex.Lock(), sqlutils.go:179
LockMutex(p) ==
    /\ cpc[p] = "lock"
    /\ MutexFree
    /\ knownDBsMutex' = p
    /\ cpc' = [cpc EXCEPT ![p] = "check"]
    /\ LET db == knownDBs[cargs[p].dataSourceName]
       IN  ctrace' = [ctrace EXCEPT ![p] =
                         [mapped |-> db # NoHandle, handle |-> db, open |-> "none"]]
    /\ UNCHANGED <<knownDBs, cargs, cres, opened, openFailures, returned, ncalls,
                   uncached>>
    /\ UNCHANGED nonCacheVars

\* sql.Open(driverName, dataSourceName) creating a new handle instance
NewHandle(driverName, dataSourceName) ==
    [id |-> Len(opened) + 1, driverName |-> driverName,
     dataSourceName |-> dataSourceName]

\* the nil *sql.DB that sql.Open returns beside a non-nil error, as a value
\* stored under a key of the map
FailedHandle == [id |-> 0, driverName |-> "nil", dataSourceName |-> ""]

\* a lookup that never finds an entry
ExistsNever(dataSourceName) == FALSE

\* a lookup in a cache keyed by driver kind and identity
ExistsForDriver(dataSourceName) ==
    /\ knownDBs[dataSourceName] # NoHandle
    /\ \E p \in Callers :
          /\ knownDBsMutex = p
          /\ knownDBs[dataSourceName].driverName = cargs[p].driverName

\* the lookup of sqlutils.go:185
Exists(dataSourceName) == knownDBs[dataSourceName] # NoHandle

\* `_, exists = knownDBs[dataSourceName]` and the cache-hit return,
\* sqlutils.go:184-185 and 192
CheckExists(p) ==
    /\ cpc[p] = "check"
    /\ LET dsn == cargs[p].dataSourceName
       IN  IF Exists(dsn)
           THEN /\ cres' = [cres EXCEPT ![p] =
                               [db |-> knownDBs[dsn], exists |-> TRUE, err |-> "nil"]]
                /\ cpc' = [cpc EXCEPT ![p] = "unlock"]
           ELSE /\ cres' = [cres EXCEPT ![p].exists = FALSE]
                /\ cpc' = [cpc EXCEPT ![p] = "open"]
    /\ UNCHANGED <<knownDBs, knownDBsMutex, cargs, opened, openFailures, returned,
                   ncalls, ctrace, uncached>>
    /\ UNCHANGED nonCacheVars

\* a store that keeps whatever sql.Open returned, failed or not
StoreAlways(dsn, db, openOK) == [knownDBs EXCEPT ![dsn] = db]

\* knownDBs[dataSourceName] = db only when err == nil, sqlutils.go:186-187
StoreAfterOpen(dsn, db, openOK) ==
    IF openOK THEN [knownDBs EXCEPT ![dsn] = db] ELSE knownDBs

\* sql.Open and the store into knownDBs, or the error return,
\* sqlutils.go:186-192
OpenAndStore(p, openOK) ==
    /\ cpc[p] = "open"
    /\ ctrace' = [ctrace EXCEPT ![p].open = IF openOK THEN "ok" ELSE "failed"]
    /\ LET dsn == cargs[p].dataSourceName
       IN  IF openOK
           THEN LET db == NewHandle(cargs[p].driverName, dsn)
                IN  /\ opened' = Append(opened, db)
                    /\ knownDBs' = StoreAfterOpen(dsn, db, TRUE)
                    /\ cres' = [cres EXCEPT ![p] =
                                   [db |-> db, exists |-> cres[p].exists, err |-> "nil"]]
                    /\ UNCHANGED openFailures
           ELSE /\ openFailures' = [openFailures EXCEPT ![dsn] = @ + 1]
                /\ cres' = [cres EXCEPT ![p] =
                               [db |-> NoHandle, exists |-> cres[p].exists,
                                err |-> "errOpen"]]
                /\ knownDBs' = StoreAfterOpen(dsn, FailedHandle, FALSE)
                /\ UNCHANGED opened
    /\ cpc' = [cpc EXCEPT ![p] = "unlock"]
    /\ UNCHANGED <<knownDBsMutex, cargs, returned, ncalls, uncached>>
    /\ UNCHANGED nonCacheVars

\* the deferred knownDBsMutex.Unlock() and the return, sqlutils.go:180-182
UnlockAndReturn(p) ==
    /\ cpc[p] = "unlock"
    /\ knownDBsMutex' = NoCaller
    /\ returned' = returned \cup
          {[args |-> cargs[p], res |-> cres[p], trace |-> ctrace[p]]}
    /\ uncached' =
          IF cres[p].err = "nil" /\ ~cres[p].exists
          THEN [uncached EXCEPT ![cargs[p].dataSourceName] = @ + 1]
          ELSE uncached
    /\ cpc' = [cpc EXCEPT ![p] = "idle"]
    /\ cargs' = [cargs EXCEPT ![p] = NoArgs]
    /\ cres' = [cres EXCEPT ![p] = NoResult]
    /\ ctrace' = [ctrace EXCEPT ![p] = NoTrace]
    /\ UNCHANGED <<knownDBs, opened, openFailures, ncalls>>
    /\ UNCHANGED nonCacheVars

CacheNext ==
    \/ \E p \in Callers, drv \in DriverNames, dsn \in DataSourceNames :
          CallGetGenericDB(p, drv, dsn)
    \/ \E p \in Callers : LockMutex(p)
    \/ \E p \in Callers : CheckExists(p)
    \/ \E p \in Callers, openOK \in BOOLEAN : OpenAndStore(p, openOK)
    \/ \E p \in Callers : UnlockAndReturn(p)

(* ======================= cells, rows, result sets ====================== *)

ColumnNames == {"a", "b"}

\* CellData, a sql.NullString, sqlutils.go:40
Cell(s, v) == [String |-> s, Valid |-> v]

\* the zero CellData of make([]CellData, n); also what Scan stores for NULL
NullCell == Cell("", FALSE)

CellValues == {Cell("x", TRUE), NullCell}

\* the column-name sequences a cursor may report
ColumnSeqs == UNION {[1..n -> ColumnNames] : n \in 1..MaxCols}

\* one record of the cursor: one value per column
RecordsFor(n) == [1..n -> CellValues]

RecordSeqs(n) == UNION {[1..m -> RecordsFor(n)] : m \in 0..MaxRows}

\* the record on which rows.Scan fails and the first column it fails at; at
\* most one record of a cursor fails to scan
NoScanFail == [row |-> 0, at |-> 0]
ScanFails(m, n) == {NoScanFail} \cup [row : 1..m, at : 1..n]

\* the column at which rows.Scan fails on record i, 0 when it succeeds
FailAt(i) == IF scanFail.row = i THEN scanFail.at ELSE 0

\* a row cut off at the column whose Scan failed
RowToArrayShort(record, cols, failAt) ==
    [k \in 1..(IF failAt = 0 THEN Len(cols) ELSE failAt - 1) |-> record[k]]

\* RowToArray: Scan fills the slots in column order and stops at the first
\* failing column; its error is dropped, the remaining slots stay zero
RowToArray(record, cols, failAt) ==
    [k \in 1..Len(cols) |->
        IF failAt = 0 \/ k < failAt THEN record[k] ELSE NullCell]

\* the last index of row holding column name c
LastIndexOf(c, row, cols) ==
    CHOOSE k \in 1..Len(row) :
        /\ cols[k] = c
        /\ \A j \in 1..Len(row) : cols[j] = c => j <= k

\* a pairing that stops one cell short
rowToMapDropLast(row, cols) ==
    [c \in {cols[k] : k \in 1..(Len(row) - 1)} |->
        row[CHOOSE k \in 1..(Len(row) - 1) : cols[k] = c]]

\* rowToMap: m[columns[k]] = row[k] for k in index order, later k overwrite
rowToMap(row, cols) ==
    [c \in {cols[k] : k \in 1..Len(row)} |-> row[LastIndexOf(c, row, cols)]]

(* =========================== query strategies ========================== *)

Strategies == {"streaming", "buffered", "bulk"}
NoRun == [outcome |-> "none"]
NoSinkFail == [err |-> "nil", sinks |-> 0, adv |-> 0]

\* what db.QueryContext may hand back: a cursor or nil, an error or nil, or a
\* panic inside the driver
QueryOutcomes ==
    {o \in [rows : BOOLEAN, err : {"nil", "ErrNoRows", "errQuery"}, panic : BOOLEAN] :
        /\ o.panic => (~o.rows /\ o.err = "nil")
        /\ ~o.panic => (o.rows \/ o.err # "nil")}
QueryOK == [rows |-> TRUE, err |-> "nil", panic |-> FALSE]

\* what on_row may do: return nil, return an error, or panic
SinkOutcomes == {"nil", "errSinkA", "errSinkB", "panic"}

\* what one pass of the scan loop may meet: nothing, a panic in rows.Next,
\* a panic in rows.Scan
AdvanceOutcomes == {"ok", "panicNext", "panicScan"}

\* `err != nil && err != sql.ErrNoRows`, sqlutils.go:270 and 294
IsQueryFailure(e) == e # "nil" /\ e # "ErrNoRows"

\* no rows.Close() deferred at all
DeferCloseNever(s, rowsNonNil) == FALSE

\* rows.Close() deferred in the streaming strategy only
DeferCloseStreamingOnly(s, rowsNonNil) == s = "streaming" /\ rowsNonNil

\* whether rows.Close() is deferred: `if rows != nil { defer rows.Close() }`
\* in QueryRowsMapContext, a bare `defer rows.Close()` in
\* queryResultDataContext
DeferClose(s, rowsNonNil) == IF s = "streaming" THEN rowsNonNil ELSE TRUE

\* rows.Columns() calls before the scan loop: ScanRowsToMaps and
\* ScanRowsToArrays in the streaming strategy; the retrieveColumns branch and
\* ScanRowsToArrays in queryResultDataContext
ColumnsCalls(s, rc) == IF s = "streaming" THEN 2 ELSE IF rc THEN 2 ELSE 1

\* a scan loop that drops the error on_row returned
AfterSinkContinue(s, o) ==
    IF o = "panic" THEN (IF s = "streaming" THEN "exit" ELSE "panicked")
    ELSE (IF s = "streaming" THEN "scan" ELSE "deliver")

\* where control goes when on_row has returned o
AfterSink(s, o) ==
    IF o = "panic" THEN (IF s = "streaming" THEN "exit" ELSE "panicked")
    ELSE IF o = "nil" THEN (IF s = "streaming" THEN "scan" ELSE "deliver")
    ELSE (IF s = "streaming" THEN "exit" ELSE "returned")

RunIdle ==
    /\ strategy = "none"
    /\ retrieveColumns = FALSE
    /\ qpc = "idle"
    /\ rows = "unset"
    /\ deferClose = FALSE
    /\ qerr = "nil"
    /\ pos = 0
    /\ drained = FALSE
    /\ panicking = FALSE
    /\ err = "nil"
    /\ columns = <<>>
    /\ resultData = <<>>
    /\ idx = 0
    /\ sinkLog = <<>>
    /\ sinkFail = NoSinkFail
    /\ colCalls = 0
    /\ arrLog = <<>>
    /\ advances = 0
    /\ injected = FALSE

\* nruns runs over some data; withScanFail: rows.Scan may fail on a record
QueryStart(nruns, withScanFail) ==
    /\ tblColumns \in ColumnSeqs
    /\ tblRecords \in RecordSeqs(Len(tblColumns))
    /\ scanFail \in IF withScanFail THEN ScanFails(Len(tblRecords), Len(tblColumns))
                    ELSE {NoScanFail}
    /\ RunIdle
    /\ results = [s \in Strategies |-> NoRun]
    /\ runsLeft = nruns

QueryOff ==
    /\ tblColumns = <<>>
    /\ tblRecords = <<>>
    /\ scanFail = NoScanFail
    /\ RunIdle
    /\ results = [s \in Strategies |-> NoRun]
    /\ runsLeft = 0

\* a caller enters QueryRowsMapContext, QueryRowsMapBufferedContext, or
\* queryResultDataContext through QueryResultDataContext (rc = FALSE) or
\* QueryNamedResultDataContext (rc = TRUE)
StartQuery(s, rc) ==
    /\ qpc = "idle"
    /\ runsLeft > 0
    /\ results[s] = NoRun
    /\ s = "buffered" => rc
    /\ s = "streaming" => ~rc
    /\ strategy' = s
    /\ retrieveColumns' = rc
    /\ qpc' = "query"
    /\ runsLeft' = runsLeft - 1
    /\ UNCHANGED <<rows, deferClose, qerr, pos, drained, panicking, err, columns,
                   resultData, idx, sinkLog, sinkFail, colCalls, advances, injected>>
    /\ UNCHANGED <<dataVars, results, arrLog>>
    /\ UNCHANGED nonQueryVars

\* db.QueryContext and what follows up to the scan loop:
\* sqlutils.go:265-273 with 243-245 and 222, or 291-302 with 222
DoQuery(o) ==
    /\ qpc = "query"
    /\ injected' = (injected \/ o.panic)
    /\ IF o.panic
       THEN /\ rows' = "nil"
            /\ panicking' = TRUE
            /\ qpc' = "exit"
            /\ UNCHANGED <<deferClose, qerr, err, columns, colCalls>>
       ELSE /\ rows' = IF o.rows THEN "open" ELSE "nil"
            /\ deferClose' = DeferClose(strategy, o.rows)
            /\ qerr' = o.err
            /\ err' = o.err
            /\ IF IsQueryFailure(o.err)
               THEN /\ qpc' = "exit"
                    /\ UNCHANGED <<panicking, columns, colCalls>>
               ELSE IF ~o.rows
               THEN \* rows.Columns() on a nil *sql.Rows
                    /\ panicking' = TRUE
                    /\ qpc' = "exit"
                    /\ UNCHANGED <<columns, colCalls>>
               ELSE /\ colCalls' = colCalls + ColumnsCalls(strategy, retrieveColumns)
                    /\ columns' = IF strategy # "streaming" /\ retrieveColumns
                                  THEN tblColumns ELSE <<>>
                    /\ qpc' = "scan"
                    /\ UNCHANGED panicking
    /\ UNCHANGED <<strategy, retrieveColumns, pos, drained, resultData, idx, sinkLog,
                   sinkFail, advances>>
    /\ UNCHANGED <<dataVars, results, runsLeft, arrLog>>
    /\ UNCHANGED nonQueryVars

\* one pass of `for rows.Next() { arr := RowToArray(rows, columns); on_row(arr) }`
\* in ScanRowsToArrays, sqlutils.go:223-230; on_row is the closure of
\* ScanRowsToMaps (246-247, up to the call of the caller's on_row) or the
\* append of queryResultDataContext (302-305)
Advance(o) ==
    /\ qpc = "scan"
    /\ advances' = advances + 1
    /\ injected' = (injected \/ o # "ok")
    /\ IF o = "panicNext"
       THEN /\ panicking' = TRUE
            /\ qpc' = "exit"
            /\ UNCHANGED <<pos, drained, err, resultData, sinkLog, arrLog>>
       ELSE IF pos = Len(tblRecords)
       THEN \* rows.Next() is false: ScanRowsToArrays returns nil
            /\ o = "ok"
            /\ drained' = TRUE
            /\ err' = "nil"
            /\ qpc' = "exit"
            /\ UNCHANGED <<pos, panicking, resultData, sinkLog, arrLog>>
       ELSE /\ pos' = pos + 1
            /\ IF o = "panicScan"
               THEN /\ panicking' = TRUE
                    /\ qpc' = "exit"
                    /\ UNCHANGED <<drained, err, resultData, sinkLog, arrLog>>
               ELSE LET arr == RowToArray(tblRecords[pos + 1], tblColumns, FailAt(pos + 1))
                    IN  /\ arrLog' = Append(arrLog, arr)
                        /\ IF strategy = "streaming"
                           THEN /\ sinkLog' = Append(sinkLog, rowToMap(arr, tblColumns))
                                /\ qpc' = "sink"
                                /\ UNCHANGED <<drained, err, resultData, panicking>>
                           ELSE /\ resultData' = Append(resultData, arr)
                                /\ qpc' = "scan"
                                /\ UNCHANGED <<drained, err, sinkLog, panicking>>
    /\ UNCHANGED <<strategy, retrieveColumns, rows, deferClose, qerr, columns, idx,
                   sinkFail, colCalls>>
    /\ UNCHANGED <<dataVars, results, runsLeft>>
    /\ UNCHANGED nonQueryVars

\* the caller's on_row returns o (or panics): sqlutils.go:247-251 and 226-228
\* in the streaming strategy, 348-351 in the buffered one
SinkReturn(o) ==
    /\ qpc = "sink"
    /\ qpc' = AfterSink(strategy, o)
    /\ injected' = (injected \/ o = "panic")
    /\ IF o = "panic"
       THEN /\ panicking' = (strategy = "streaming")
            /\ UNCHANGED <<err, sinkFail, idx>>
       ELSE IF o = "nil"
       THEN /\ idx' = IF strategy = "buffered" THEN idx + 1 ELSE idx
            /\ UNCHANGED <<err, sinkFail, panicking>>
       ELSE /\ err' = o
            /\ sinkFail' = IF sinkFail = NoSinkFail
                           THEN [err |-> o, sinks |-> Len(sinkLog), adv |-> advances]
                           ELSE sinkFail
            /\ UNCHANGED <<panicking, idx>>
    /\ UNCHANGED <<strategy, retrieveColumns, rows, deferClose, qerr, pos, drained,
                   columns, resultData, sinkLog, colCalls, advances>>
    /\ UNCHANGED <<dataVars, results, runsLeft, arrLog>>
    /\ UNCHANGED nonQueryVars

\* the deferred calls of QueryRowsMapContext (259-263, 268) or of
\* queryResultDataContext (285-289, 293) run, last registered first:
\* rows.Close(), which panics on a nil *sql.Rows, then the recover; then the
\* `if err != nil` of QueryRowsMapBufferedContext (343-346)
ExitFunction ==
    /\ qpc = "exit"
    /\ LET closePanics == deferClose /\ rows = "nil"
           e == IF panicking \/ closePanics THEN "errUnexpected" ELSE err
       IN  /\ rows' = IF deferClose /\ rows = "open" THEN "closed" ELSE rows
           /\ panicking' = FALSE
           /\ err' = e
           /\ IF strategy = "buffered" /\ e = "nil"
              THEN /\ qpc' = "deliver"
                   /\ idx' = 1
              ELSE /\ qpc' = "returned"
                   /\ UNCHANGED idx
    /\ UNCHANGED <<strategy, retrieveColumns, deferClose, qerr, pos, drained, columns,
                   resultData, sinkLog, sinkFail, colCalls, advances, injected>>
    /\ UNCHANGED <<dataVars, results, runsLeft, arrLog>>
    /\ UNCHANGED nonQueryVars

\* a range loop that stops one row early
LoopDoneEarly(i, rd) == i >= Len(rd)

\* the range loop of sqlutils.go:347 has passed the last row
LoopDone(i, rd) == i > Len(rd)

\* `for _, row := range resultData { err = on_row(rowToMap(row, columns)) }`
\* up to the call of on_row, and the final `return nil`, sqlutils.go:347-353
Deliver ==
    /\ qpc = "deliver"
    /\ IF LoopDone(idx, resultData)
       THEN /\ qpc' = "returned"
            /\ err' = "nil"
            /\ UNCHANGED sinkLog
       ELSE /\ sinkLog' = Append(sinkLog, rowToMap(resultData[idx], columns))
            /\ qpc' = "sink"
            /\ UNCHANGED err
    /\ UNCHANGED <<strategy, retrieveColumns, rows, deferClose, qerr, pos, drained,
                   panicking, columns, resultData, idx, sinkFail, colCalls, advances,
                   injected>>
    /\ UNCHANGED <<dataVars, results, runsLeft, arrLog>>
    /\ UNCHANGED nonQueryVars

\* the caller has the results of the run (or its panic) in hand
FinishRun ==
    /\ qpc \in {"returned", "panicked"}
    /\ results' = [results EXCEPT ![strategy] =
                      [outcome |-> qpc, err |-> err, delivered |-> sinkLog,
                       resultData |-> resultData, columns |-> columns]]
    /\ strategy' = "none"
    /\ retrieveColumns' = FALSE
    /\ qpc' = "idle"
    /\ rows' = "unset"
    /\ deferClose' = FALSE
    /\ qerr' = "nil"
    /\ pos' = 0
    /\ drained' = FALSE
    /\ panicking' = FALSE
    /\ err' = "nil"
    /\ columns' = <<>>
    /\ resultData' = <<>>
    /\ idx' = 0
    /\ sinkLog' = <<>>
    /\ sinkFail' = NoSinkFail
    /\ colCalls' = 0
    /\ arrLog' = <<>>
    /\ advances' = 0
    /\ injected' = FALSE
    /\ UNCHANGED <<dataVars, runsLeft>>
    /\ UNCHANGED nonQueryVars

QueryNext ==
    \/ \E s \in Strategies, rc \in BOOLEAN : StartQuery(s, rc)
    \/ \E o \in QueryOutcomes : DoQuery(o)
    \/ \E o \in AdvanceOutcomes : Advance(o)
    \/ \E o \in SinkOutcomes : SinkReturn(o)
    \/ ExitFunction
    \/ Deliver

\* one run of a strategy that drives ScanRowsToArrays itself, over data on
\* which rows.Scan may fail
ScanNext ==
    \/ StartQuery("streaming", FALSE)
    \/ StartQuery("bulk", FALSE)
    \/ DoQuery(QueryOK)
    \/ \E o \in AdvanceOutcomes : Advance(o)
    \/ \E o \in SinkOutcomes : SinkReturn(o)
    \/ ExitFunction

\* the order in which the comparison runs the strategies
RunsBefore(s) ==
    IF s = "streaming" THEN {} ELSE IF s = "buffered" THEN {"streaming"}
    ELSE {"streaming", "buffered"}

\* the three strategies one after the other over the same data, the driver
\* and on_row never failing
EquivNext ==
    \/ \E s \in Strategies, rc \in BOOLEAN :
          /\ \A t \in RunsBefore(s) : results[t] # NoRun
          /\ StartQuery(s, rc)
    \/ DoQuery(QueryOK)
    \/ Advance("ok")
    \/ SinkReturn("nil")
    \/ ExitFunction
    \/ Deliver
    \/ FinishRun

(* ============================ table restore ============================ *)

\* the NamedResultData a caller may pass: any column-name sequence, also the
\* empty one, and rows as wide as the columns (one cell wide without columns)
WriteColumnSeqs == UNION {[1..n -> ColumnNames] : n \in 0..MaxWriteCols}
WriteWidth(cols) == IF Len(cols) = 0 THEN 1 ELSE Len(cols)
WriteRowSeqs(w) == UNION {[1..m -> [1..w -> CellValues]] : m \in 0..MaxWriteRows}

\* the table before the call: empty, or holding one row
InitialTables(w) == {<<>>, <<[i \in 1..w |-> [null |-> FALSE, text |-> "x"]]>>}

\* what db.ExecContext may return for one row
ExecOutcomes == {"nil", "errExecA", "errExecB"}

\* the `replace into %s (%s) values (%s)` built from data.Columns,
\* sqlutils.go:469-478
WriteQuery(cols) ==
    [stmt |-> "replace into", columns |-> cols,
     placeholders |-> [i \in 1..Len(cols) |-> "?"]]

\* arguments that carry the cell's text only
ArgsStringsOnly(row) ==
    [i \in 1..Len(row) |->
        [type |-> "NullString", String |-> row[i].String, Valid |-> TRUE]]

\* RowData.Args: each cell as a sql.NullString argument, sqlutils.go:79-85
Args(row) ==
    [i \in 1..Len(row) |->
        [type |-> "NullString", String |-> row[i].String, Valid |-> row[i].Valid]]

\* the value the driver binds for a sql.NullString argument: NULL unless Valid
BoundValue(arg) ==
    IF arg.Valid THEN [null |-> FALSE, text |-> arg.String]
    ELSE [null |-> TRUE, text |-> ""]

\* a successful `replace into`: the row replaces the stored rows with the same
\* key (the first column), or is added
ReplaceInto(table, args) ==
    LET row == [i \in 1..Len(args) |-> BoundValue(args[i])]
    IN  Append(SelectSeq(table, LAMBDA r : r[1] # row[1]), row)

\* a guard that forgets the columns
IsNoOpRowsOnly(cols, data) == Len(data) = 0

\* `if len(data.Data) == 0` and `if len(data.Columns) == 0`, sqlutils.go:463-468
IsNoOp(cols, data) == Len(data) = 0 \/ Len(cols) = 0

\* a loop that keeps the first failure
KeepFirstErr(e, execErr) == IF e # "nil" THEN e ELSE execErr

\* the err the loop keeps after an execution returned execErr,
\* sqlutils.go:480-482
KeepErr(e, execErr) == IF execErr # "nil" THEN execErr ELSE e

WriteStart ==
    /\ wColumns \in WriteColumnSeqs
    /\ wData \in WriteRowSeqs(WriteWidth(wColumns))
    /\ wpc = "start"
    /\ wi = 0
    /\ werr = "nil"
    /\ execLog = <<>>
    /\ dbTable \in InitialTables(WriteWidth(wColumns))
    /\ dbTable0 = dbTable

\* WriteTableContext up to the loop: the two early returns, sqlutils.go:462-478
WriteBegin ==
    /\ wpc = "start"
    /\ wpc' = IF IsNoOp(wColumns, wData) THEN "returned" ELSE "loop"
    /\ UNCHANGED <<wColumns, wData, wi, werr, execLog, dbTable, dbTable0>>
    /\ UNCHANGED nonWriteVars

\* one iteration of the loop: db.ExecContext for the next row returns o,
\* sqlutils.go:479-483
ExecRow(o) ==
    /\ wpc = "loop"
    /\ wi < Len(wData)
    /\ LET args == Args(wData[wi + 1])
       IN  /\ execLog' = Append(execLog, [query |-> WriteQuery(wColumns),
                                          args |-> args, row |-> wi + 1,
                                          outcome |-> o])
           /\ dbTable' = IF o = "nil" THEN ReplaceInto(dbTable, args) ELSE dbTable
    /\ werr' = KeepErr(werr, o)
    /\ wi' = wi + 1
    /\ UNCHANGED <<wColumns, wData, wpc, dbTable0>>
    /\ UNCHANGED nonWriteVars

\* the loop is over: `return err`, sqlutils.go:484
WriteReturn ==
    /\ wpc = "loop"
    /\ wi = Len(wData)
    /\ wpc' = "returned"
    /\ UNCHANGED <<wColumns, wData, wi, werr, execLog, dbTable, dbTable0>>
    /\ UNCHANGED nonWriteVars

WriteNext ==
    \/ WriteBegin
    \/ \E o \in ExecOutcomes : ExecRow(o)
    \/ WriteReturn

WriteOff ==
    /\ wColumns = <<>>
    /\ wData = <<>>
    /\ wpc = "idle"
    /\ wi = 0
    /\ werr = "nil"
    /\ execLog = <<>>
    /\ dbTable = <<>>
    /\ dbTable0 = <<>>

(* ========================= snapshot and restore ======================== *)

\* the tables a snapshot is taken of: columns (id, name), the id the key,
\* the name possibly NULL
TableColumns == <<"id", "name">>
TableIds == {"1", "2", "3"}
StoredNames == {[null |-> FALSE, text |-> "a"], [null |-> TRUE, text |-> ""]}
StoredRows == {<<[null |-> FALSE, text |-> id], name>> : id \in TableIds, name \in StoredNames}
SourceTables ==
    UNION {{t \in [1..m -> StoredRows] :
               \A i, j \in 1..m : t[i][1] = t[j][1] => i = j} : m \in 0..MaxTableRows}

\* rows.Scan of a stored value into a sql.NullString slot of RowToArray
ScanValue(v) == IF v.null THEN NullCell ELSE Cell(v.text, TRUE)

\* the records `select * from <table>` delivers, sqlutils.go:452-454
CursorOver(table) ==
    [i \in 1..Len(table) |-> [k \in 1..Len(table[i]) |-> ScanValue(table[i][k])]]

\* a table to snapshot, an empty table of the same schema to restore into
RoundTripStart ==
    /\ tblColumns = TableColumns
    /\ \E t \in SourceTables : tblRecords = CursorOver(t)
    /\ scanFail = NoScanFail
    /\ RunIdle
    /\ results = [s \in Strategies |-> NoRun]
    /\ runsLeft = 2
    /\ WriteOff

\* ScanTableContext: QueryNamedResultDataContext, the bulk strategy with
\* column names, sqlutils.go:452-455 and 327-330
ScanTableContext ==
    /\ wpc \in {"idle", "returned"}
    /\ StartQuery("bulk", TRUE)

\* the snapshot is handed to WriteTableContext, sqlutils.go:462
BeginRestore ==
    /\ qpc = "idle"
    /\ runsLeft = 1
    /\ results["bulk"] # NoRun
    /\ wpc = "idle"
    /\ wColumns' = results["bulk"].columns
    /\ wData' = results["bulk"].resultData
    /\ wpc' = "start"
    /\ UNCHANGED <<wi, werr, execLog, dbTable, dbTable0>>
    /\ UNCHANGED nonWriteVars

\* the restore has returned; the next snapshot reads the restored table
BeginResnapshot ==
    /\ qpc = "idle"
    /\ runsLeft = 1
    /\ results["bulk"] # NoRun
    /\ wpc = "returned"
    /\ tblRecords' = CursorOver(dbTable)
    /\ results' = [results EXCEPT !["bulk"] = NoRun]
    /\ UNCHANGED <<tblColumns, scanFail, runVars, runsLeft>>
    /\ UNCHANGED nonQueryVars

RoundTripNext ==
    \/ ScanTableContext
    \/ DoQuery(QueryOK)
    \/ Advance("ok")
    \/ ExitFunction
    \/ FinishRun
    \/ BeginRestore
    \/ WriteBegin
    \/ \E o \in ExecOutcomes : ExecRow(o)
    \/ WriteReturn
    \/ BeginResnapshot

(* ================== JSON of cells, pairing, accessors ================== *)

NoOutput == [kind |-> "none"]

PureOff ==
    /\ pin = NoOutput
    /\ pout = NoOutput
    /\ ppc = "off"

\* ---- CellData.MarshalJSON / UnmarshalJSON, sqlutils.go:42-60

\* the cells of a scanned row: a text, or NULL with the empty text
JSONTexts == {"", "x", "null"}
JSONCells == {Cell(t, TRUE) : t \in JSONTexts} \cup {NullCell}

JSONNull == [kind |-> "null", text |-> ""]
JSONString(t) == [kind |-> "string", text |-> t]
JSONNumber == [kind |-> "number", text |-> "1"]

\* MarshalJSON: json.Marshal(this.String) when Valid, json.Marshal(nil) else
MarshalJSON(this) ==
    IF this.Valid THEN JSONString(this.String) ELSE JSONNull

\* json.Unmarshal(b, &s) into a fresh `var s string`: a JSON string sets s,
\* JSON null leaves s as it is and is no error, anything else is an error
UnmarshalString(b) ==
    IF b.kind = "string" THEN [s |-> b.text, err |-> "nil"]
    ELSE IF b.kind = "null" THEN [s |-> "", err |-> "nil"]
    ELSE [s |-> "", err |-> "errUnmarshalType"]

\* UnmarshalJSON: on error the receiver is left alone; otherwise String = s
\* and Valid = true
UnmarshalJSON(this, b) ==
    LET r == UnmarshalString(b)
    IN  IF r.err # "nil" THEN [cell |-> this, err |-> r.err]
        ELSE [cell |-> Cell(r.s, TRUE), err |-> "nil"]

JSONInputs == [kind : {"json"}, cell : JSONCells, receiver : JSONCells]

\* encodeJSON of the cell
ApplyMarshalJSON ==
    /\ ppc = "ready"
    /\ pin.kind = "json"
    /\ pout' = [kind |-> "json", bytes |-> MarshalJSON(pin.cell)]
    /\ ppc' = "encoded"
    /\ UNCHANGED pin
    /\ UNCHANGED nonPureVars

\* decodeJSON of the encoding into the receiver
ApplyUnmarshalJSON ==
    /\ ppc = "encoded"
    /\ pin.kind = "json"
    /\ LET r == UnmarshalJSON(pin.receiver, pout.bytes)
       IN  pout' = [kind |-> "cell", bytes |-> pout.bytes, cell |-> r.cell, err |-> r.err]
    /\ ppc' = "done"
    /\ UNCHANGED pin
    /\ UNCHANGED nonPureVars

\* decodeJSON of a JSON value that is no string and not null
ApplyUnmarshalOther ==
    /\ ppc = "ready"
    /\ pin.kind = "json"
    /\ LET r == UnmarshalJSON(pin.receiver, JSONNumber)
       IN  pout' = [kind |-> "cell", bytes |-> JSONNumber, cell |-> r.cell, err |-> r.err]
    /\ ppc' = "failed"
    /\ UNCHANGED pin
    /\ UNCHANGED nonPureVars

\* ---- rowToMap, sqlutils.go:233-239

PairingInputs ==
    UNION {[kind : {"rowToMap"}, row : [1..n -> JSONCells], columns : [1..n -> ColumnNames]] :
              n \in 0..MaxCols}

ApplyRowToMap ==
    /\ ppc = "ready"
    /\ pin.kind = "rowToMap"
    /\ pout' = [kind |-> "rowMap", m |-> rowToMap(pin.row, pin.columns)]
    /\ ppc' = "done"
    /\ UNCHANGED pin
    /\ UNCHANGED nonPureVars

\* ---- RowMap accessors, sqlutils.go:96-163

\* int, int64, uint and uint64 have one width on the platforms the package
\* is built for; the model keeps that width as IntBits
MaxInt == 2^(IntBits - 1) - 1
MinInt == 0 - 2^(IntBits - 1)
MaxUint == 2^IntBits - 1

\* the decimal numerals among the cell texts, with the number each denotes
Numerals ==
    [t \in {"0", "7", "-1", "32767", "32768", "65535", "65536", "-32769"} |->
        CASE t = "0" -> 0
          [] t = "7" -> 7
          [] t = "-1" -> 0 - 1
          [] t = "32767" -> 32767
          [] t = "32768" -> 32768
          [] t = "65535" -> 65535
          [] t = "65536" -> 65536
          [] t = "-32769" -> 0 - 32769]

AccessorTexts == DOMAIN Numerals \cup {"", "abc"}
AccessorCells == {Cell(t, TRUE) : t \in AccessorTexts} \cup {NullCell}
AccessorKeys == {"a", "b"}
AccessorDefaults == {0, 7}

\* strconv.ParseInt(s, 10, 0): a syntax error gives 0, a range error gives
\* the nearest representable value, both with a non-nil error
ParseInt(s) ==
    IF s \notin DOMAIN Numerals THEN [val |-> 0, err |-> "ErrSyntax"]
    ELSE IF Numerals[s] > MaxInt THEN [val |-> MaxInt, err |-> "ErrRange"]
    ELSE IF Numerals[s] < MinInt THEN [val |-> MinInt, err |-> "ErrRange"]
    ELSE [val |-> Numerals[s], err |-> "nil"]

\* strconv.ParseUint(s, 10, 0): no sign is accepted
ParseUint(s) ==
    IF s \notin DOMAIN Numerals \/ Numerals[s] < 0 THEN [val |-> 0, err |-> "ErrSyntax"]
    ELSE IF Numerals[s] > MaxUint THEN [val |-> MaxUint, err |-> "ErrRange"]
    ELSE [val |-> Numerals[s], err |-> "nil"]

\* strconv.Atoi(s) is ParseInt(s, 10, 0) converted to int
Atoi(s) == ParseInt(s)

\* the conversion uint(x) of a signed x
ToUint(x) == x % 2^IntBits

\* (*this)[key]: the zero CellData when the key is missing
GetCell(this, key) == IF key \in DOMAIN this THEN this[key] ELSE NullCell

GetString(this, key) == GetCell(this, key).String

GetInt64(this, key) == ParseInt(GetString(this, key)).val

GetInt(this, key) == Atoi(GetString(this, key)).val

GetIntD(this, key, def) ==
    LET r == Atoi(GetString(this, key))
    IN  IF r.err # "nil" THEN def ELSE r.val

GetUint(this, key) == ToUint(ParseUint(GetString(this, key)).val)

GetUintD(this, key, def) ==
    LET r == Atoi(GetString(this, key))
    IN  IF r.err # "nil" THEN def ELSE ToUint(r.val)

GetUint64(this, key) == ParseUint(GetString(this, key)).val

GetUint64D(this, key, def) ==
    LET r == ParseUint(GetString(this, key))
    IN  IF r.err # "nil" THEN def ELSE r.val

GetBool(this, key) == GetInt(this, key) # 0

\* named rows holding at most the key "a"
AccessorRows == {<<>>} \cup [{"a"} -> AccessorCells]

AccessorInputs ==
    [kind : {"get"}, row : AccessorRows, key : AccessorKeys, def : AccessorDefaults]

ApplyAccessors ==
    /\ ppc = "ready"
    /\ pin.kind = "get"
    /\ pout' = [kind      |-> "values",
                GetInt64   |-> GetInt64(pin.row, pin.key),
                GetInt     |-> GetInt(pin.row, pin.key),
                GetIntD    |-> GetIntD(pin.row, pin.key, pin.def),
                GetUint    |-> GetUint(pin.row, pin.key),
                GetUintD   |-> GetUintD(pin.row, pin.key, pin.def),
                GetUint64  |-> GetUint64(pin.row, pin.key),
                GetUint64D |-> GetUint64D(pin.row, pin.key, pin.def),
                GetBool    |-> GetBool(pin.row, pin.key)]
    /\ ppc' = "done"
    /\ UNCHANGED pin
    /\ UNCHANGED nonPureVars

PureStart ==
    /\ pin \in JSONInputs \cup PairingInputs \cup AccessorInputs
    /\ pout = NoOutput
    /\ ppc = "ready"

PureNext ==
    \/ ApplyMarshalJSON
    \/ ApplyUnmarshalJSON
    \/ ApplyUnmarshalOther
    \/ ApplyRowToMap
    \/ ApplyAccessors

(* ============================== execute =============================== *)

PrepareOutcomes == {"nil", "errPrepare", "panic"}
StmtExecOutcomes == {"nil", "errExec", "panic"}
NoSteps == [prepare |-> "none", exec |-> "none"]

ExecIdle ==
    /\ xpc = "idle"
    /\ xsilent = FALSE
    /\ xstmt = "none"
    /\ xdeferClose = FALSE
    /\ xpanicking = FALSE
    /\ xres = "nil"
    /\ xerr = "nil"
    /\ xsteps = NoSteps
    /\ xlogged = <<>>

ExecStart ==
    /\ ExecIdle
    /\ xlog = 0
    /\ xreturned = {}
    /\ xcalls = 0

ExecOff == ExecStart

\* execInternalContext is entered with the given silent flag
execInternalContext(silent) ==
    /\ xpc = "idle"
    /\ xcalls < MaxExecs
    /\ xcalls' = xcalls + 1
    /\ xsilent' = silent
    /\ xpc' = "prepare"
    /\ xstmt' = "none"
    /\ xdeferClose' = FALSE
    /\ xpanicking' = FALSE
    /\ xres' = "nil"
    /\ xerr' = "nil"
    /\ xsteps' = NoSteps
    /\ xlogged' = <<>>
    /\ UNCHANGED <<xlog, xreturned>>
    /\ UNCHANGED nonExecVars

\* ExecContext / Exec: silent = false
ExecContext == execInternalContext(FALSE)

\* ExecSilentlyContext / ExecSilently: silent = true
ExecSilentlyContext == execInternalContext(TRUE)

\* the failures a failing stmt.ExecContext hands to log.Errore (lines 398-400)
LogsOf(e, silent) == IF e # "nil" /\ ~silent THEN <<e>> ELSE <<>>

\* stmt, err = db.PrepareContext(ctx, query); on failure return nil, err
PrepareContext(o) ==
    /\ xpc = "prepare"
    /\ xsteps' = [xsteps EXCEPT !.prepare = o]
    /\ IF o = "panic"
       THEN /\ xpanicking' = TRUE
            /\ xpc' = "exit"
            /\ UNCHANGED <<xstmt, xdeferClose, xerr>>
       ELSE IF o # "nil"
       THEN /\ xerr' = o
            /\ xpc' = "exit"
            /\ UNCHANGED <<xstmt, xdeferClose, xpanicking>>
       ELSE /\ xstmt' = "open"
            /\ xdeferClose' = TRUE
            /\ xerr' = "nil"
            /\ xpc' = "exec"
            /\ UNCHANGED xpanicking
    /\ UNCHANGED <<xsilent, xres, xlogged, xlog, xreturned, xcalls>>
    /\ UNCHANGED nonExecVars

\* res, err = stmt.ExecContext(ctx, args...), then the logging of lines 398-400
StmtExecContext(o) ==
    /\ xpc = "exec"
    /\ xsteps' = [xsteps EXCEPT !.exec = o]
    /\ IF o = "panic"
       THEN /\ xpanicking' = TRUE
            /\ UNCHANGED <<xres, xerr, xlogged, xlog>>
       ELSE /\ xres' = IF o = "nil" THEN "result" ELSE "nil"
            /\ xerr' = o
            /\ xlogged' = xlogged \o LogsOf(o, xsilent)
            /\ xlog' = xlog + Len(LogsOf(o, xsilent))
            /\ UNCHANGED xpanicking
    /\ xpc' = "exit"
    /\ UNCHANGED <<xsilent, xstmt, xdeferClose, xreturned, xcalls>>
    /\ UNCHANGED nonExecVars

\* the deferred calls run, last registered first: stmt.Close(), then the
\* recover of lines 386-390; the call returns
ExecReturn ==
    /\ xpc = "exit"
    /\ LET e == IF xpanicking THEN "errUnexpected" ELSE xerr
           stmt == IF xdeferClose /\ xstmt = "open" THEN "closed" ELSE xstmt
       IN  xreturned' = xreturned \cup
              {[silent |-> xsilent, steps |-> xsteps, res |-> xres, err |-> e,
                stmt |-> stmt, logged |-> xlogged]}
    /\ xpc' = "idle"
    /\ xsilent' = FALSE
    /\ xstmt' = "none"
    /\ xdeferClose' = FALSE
    /\ xpanicking' = FALSE
    /\ xres' = "nil"
    /\ xerr' = "nil"
    /\ xsteps' = NoSteps
    /\ xlogged' = <<>>
    /\ UNCHANGED <<xlog, xcalls>>
    /\ UNCHANGED nonExecVars

ExecNext ==
    \/ ExecContext
    \/ ExecSilentlyContext
    \/ \E o \in PrepareOutcomes : PrepareContext(o)
    \/ \E o \in StmtExecOutcomes : StmtExecContext(o)
    \/ ExecReturn

(* ============================ specifications =========================== *)

InitCache == CacheStart /\ QueryOff /\ WriteOff /\ PureOff /\ ExecOff
SpecCache == InitCache /\ [][CacheNext]_vars

\* a step of the call that holds the mutex
HolderStep ==
    \E p \in Callers :
        \/ CheckExists(p)
        \/ \E openOK \in BOOLEAN : OpenAndStore(p, openOK)
        \/ UnlockAndReturn(p)

\* the scheduler runs the goroutine inside the critical section (only one can
\* be), and a sync.Mutex hands the lock to a goroutine that keeps waiting for
\* it (starvation mode)
CacheFairness ==
    /\ WF_vars(HolderStep)
    /\ \A p \in Callers : SF_vars(LockMutex(p))

\* GetDB(mysql_uri), sqlutils.go:197-199
GetDB(p, mysql_uri) == CallGetGenericDB(p, "mysql", mysql_uri)

\* callers of GetDB only
GetDBNext ==
    \/ \E p \in Callers, dsn \in DataSourceNames : GetDB(p, dsn)
    \/ \E p \in Callers : LockMutex(p)
    \/ \E p \in Callers : CheckExists(p)
    \/ \E p \in Callers, openOK \in BOOLEAN : OpenAndStore(p, openOK)
    \/ \E p \in Callers : UnlockAndReturn(p)

SpecCacheFair == InitCache /\ [][GetDBNext]_vars /\ CacheFairness

InitQuery == CacheStart /\ QueryStart(1, FALSE) /\ WriteOff /\ PureOff /\ ExecOff
SpecQuery == InitQuery /\ [][QueryNext]_vars

InitWrite == CacheStart /\ QueryOff /\ WriteStart /\ PureOff /\ ExecOff
SpecWrite == InitWrite /\ [][WriteNext]_vars

InitEquiv == CacheStart /\ QueryStart(3, TRUE) /\ WriteOff /\ PureOff /\ ExecOff
SpecEquiv == InitEquiv /\ [][EquivNext]_vars

InitScan == CacheStart /\ QueryStart(1, TRUE) /\ WriteOff /\ PureOff /\ ExecOff
SpecScan == InitScan /\ [][ScanNext]_vars

InitRoundTrip == CacheStart /\ RoundTripStart /\ PureOff /\ ExecOff

InitPure == CacheStart /\ QueryOff /\ WriteOff /\ PureStart /\ ExecOff
SpecPure == InitPure /\ [][PureNext]_vars

InitExec == CacheStart /\ QueryOff /\ WriteOff /\ PureOff /\ ExecStart
SpecExec == InitExec /\ [][ExecNext]_vars
SpecRoundTrip == InitRoundTrip /\ [][RoundTripNext]_vars

(* ============================== claims ================================= *)

\* number of handles sql.Open created for an identity
OpensOf(dsn) == Cardinality({i \in 1..Len(opened) : opened[i].dataSourceName = dsn})

\* the completed calls for an identity that returned a handle
ReturnedOK(dsn) == {r \in returned : r.args.dataSourceName = dsn /\ r.res.err = "nil"}

\* C1: under every interleaving of GetGenericDB calls with the same
\* dataSourceName, at most one handle is ever opened for it, every call that
\* returns a handle returns that same instance, and when no open failed the
\* open was performed exactly once.
C1_OneOpenSameHandle ==
    \A dsn \in DataSourceNames :
        /\ OpensOf(dsn) <= 1
        /\ \A r1, r2 \in ReturnedOK(dsn) : r1.res.db = r2.res.db
        /\ \A r \in ReturnedOK(dsn) : r.res.db # NoHandle /\ r.res.db = knownDBs[dsn]
        /\ (openFailures[dsn] = 0 /\ ReturnedOK(dsn) # {}) => OpensOf(dsn) = 1

\* two calls for one identity have returned (the opener and a cache hit) while
\* two more calls for that identity overlap: one holds the mutex, one waits
C1_Witness ==
    \E dsn \in DataSourceNames :
        /\ openFailures[dsn] = 0
        /\ \E r \in ReturnedOK(dsn) : ~r.res.exists
        /\ \E p, q \in Callers :
              /\ p # q
              /\ cpc[p] = "lock" /\ cargs[p].dataSourceName = dsn
              /\ knownDBsMutex = q /\ cargs[q].dataSourceName = dsn

\* C2: whenever a query strategy has returned to its caller (normally, with
\* an error, after a sink failure or after a recovered panic) the cursor it
\* opened is no longer open.
C2_CursorClosedOnReturn ==
    qpc \in {"returned", "panicked"} => rows # "open"

\* a run that opened a cursor and returned on a failure path (sink failure or
\* recovered panic) with the cursor closed
C2_Witness ==
    /\ qpc = "returned"
    /\ rows = "closed"
    /\ err \in {"errSinkA", "errUnexpected"}
    /\ pos < Len(tblRecords)

\* C3: once on_row has returned a failure, on_row is invoked for no later
\* row, the streaming strategy does not advance the cursor again, and the
\* strategy returns exactly that failure.
C3_SinkFailureStopsAndPropagates ==
    sinkFail # NoSinkFail =>
        /\ Len(sinkLog) = sinkFail.sinks
        /\ strategy = "streaming" => advances = sinkFail.adv
        /\ qpc \in {"exit", "returned"}
        /\ qpc = "returned" => err = sinkFail.err

\* a run has returned the failure of on_row although rows were left to deliver
C3_Witness ==
    /\ qpc = "returned"
    /\ sinkFail # NoSinkFail
    /\ err = "errSinkB"
    /\ Len(sinkLog) < Len(tblRecords)

\* C4: in the buffered strategy on_row only ever runs, and has only ever run,
\* with the cursor drained to exhaustion and closed.
C4_BufferedSinkAfterClose ==
    (strategy = "buffered" /\ (qpc = "sink" \/ Len(sinkLog) > 0)) =>
        /\ rows = "closed"
        /\ drained
        /\ pos = Len(tblRecords)
        /\ Len(resultData) = Len(tblRecords)

\* on_row is running on the second buffered row
C4_Witness ==
    strategy = "buffered" /\ qpc = "sink" /\ Len(sinkLog) = 2

\* C5: when db.QueryContext fails with an error other than sql.ErrNoRows,
\* the strategy returns that error and on_row is never invoked.
C5_QueryFailureReturned ==
    (qpc = "returned" /\ IsQueryFailure(qerr)) => (err = qerr /\ sinkLog = <<>>)

\* C6: a streaming query over no rows, also when db.QueryContext reports
\* sql.ErrNoRows with or without a cursor, never invokes on_row and returns nil
\* (no panic of the driver or of on_row being involved).
C6_StreamingNoRowsIsSuccess ==
    (/\ strategy = "streaming"
     /\ qpc = "returned"
     /\ ~injected
     /\ ~IsQueryFailure(qerr)
     /\ Len(tblRecords) = 0) => (err = "nil" /\ sinkLog = <<>>)

\* C7: no panic raised while a strategy runs reaches the caller as a panic.
C7_NoUncontrolledPanic ==
    qpc # "panicked"

\* all three strategies have completed over the same data
AllRan == \A s \in Strategies : results[s] # NoRun

\* the column names of the cursor are pairwise distinct
DistinctColumns ==
    \A j, k \in 1..Len(tblColumns) : tblColumns[j] = tblColumns[k] => j = k

\* the three runs delivered equally many rows, the two callback strategies the
\* same named rows in the same order
SameRowsSameOrder ==
    LET st == results["streaming"].delivered
        bf == results["buffered"].delivered
        bk == results["bulk"].resultData
    IN  /\ \A s \in Strategies : results[s].outcome = "returned" /\ results[s].err = "nil"
        /\ Len(st) = Len(tblRecords)
        /\ Len(bf) = Len(st)
        /\ Len(bk) = Len(st)
        /\ \A i \in 1..Len(st) : st[i] = bf[i]

\* every named row holds, under each column's name, the cell the bulk row
\* holds at that column's position
SameCellsPerColumn ==
    LET st == results["streaming"].delivered
        bk == results["bulk"].resultData
    IN  \A i \in 1..Len(st) : \A k \in 1..Len(tblColumns) :
            /\ Len(bk[i]) = Len(tblColumns)
            /\ tblColumns[k] \in DOMAIN st[i]
            /\ st[i][tblColumns[k]] = bk[i][k]

\* C8 as stated: the three strategies deliver the same rows, in the same
\* order, with the same cell contents per column.
C8_SameRowsAndCells ==
    AllRan => (SameRowsSameOrder /\ SameCellsPerColumn)

\* C8 amended: the three strategies deliver the same number of rows in the
\* same order, streaming and buffered the same named rows, and the cell
\* contents agree per column whenever the column names are pairwise distinct.
C8_SameRowsAndCellsDistinctColumns ==
    AllRan => (SameRowsSameOrder /\ (DistinctColumns => SameCellsPerColumn))

\* the three strategies have run over two different records of two distinctly
\* named columns
C8_Witness ==
    /\ AllRan
    /\ DistinctColumns
    /\ Len(tblColumns) = 2
    /\ Len(tblRecords) = 2
    /\ tblRecords[1] # tblRecords[2]
    /\ Len(results["bulk"].resultData) = 2

\* the failure of the last failed execution in the log, nil when none failed
LastFailure(log) ==
    LET failed == {i \in 1..Len(log) : log[i].outcome # "nil"}
    IN  IF failed = {} THEN "nil"
        ELSE log[CHOOSE i \in failed : \A j \in failed : j <= i].outcome

\* C9: with rows and columns present, WriteTableContext executes the upsert
\* once per row, in row order, with that row's cells as arguments, whatever
\* the executions return, and returns the failure of the last row that failed
\* (nil iff none failed).
C9_AllRowsExecutedLastFailureReturned ==
    (Len(wData) > 0 /\ Len(wColumns) > 0 /\ wpc # "start") =>
        /\ Len(execLog) = wi
        /\ \A i \in 1..Len(execLog) :
              /\ execLog[i].row = i
              /\ execLog[i].query = WriteQuery(wColumns)
              /\ execLog[i].args = Args(wData[i])
        /\ wpc = "returned" =>
              /\ Len(execLog) = Len(wData)
              /\ werr = LastFailure(execLog)
              /\ (werr = "nil") <=> (\A i \in 1..Len(execLog) : execLog[i].outcome = "nil")

\* a restore of three rows has returned the failure of its second row after
\* the first failed differently and the third succeeded
C9_Witness ==
    /\ wpc = "returned"
    /\ Len(execLog) = 3
    /\ execLog[1].outcome = "errExecA"
    /\ execLog[2].outcome = "errExecB"
    /\ execLog[3].outcome = "nil"
    /\ werr = "errExecB"

\* C10: WriteTableContext given no rows, or no columns, executes nothing,
\* leaves the table as it was and returns nil.
C10_EmptyRestoreIsNoOp ==
    (Len(wData) = 0 \/ Len(wColumns) = 0) =>
        /\ execLog = <<>>
        /\ dbTable = dbTable0
        /\ wpc \in {"start", "returned"}
        /\ werr = "nil"

\* a restore of rows without columns has returned, the table holding a row
C10_Witness ==
    /\ wpc = "returned"
    /\ Len(wColumns) = 0
    /\ Len(wData) > 0
    /\ dbTable # <<>>

\* the second snapshot of the round trip has been taken
RoundTripDone == runsLeft = 0 /\ qpc = "idle" /\ results["bulk"] # NoRun

\* C11: a snapshot restored without failure into an empty table of the same
\* schema and snapshotted again gives back the snapshot: same columns, same
\* rows, every cell's text and presence, NULL cells still absent; so for
\* columns (id, name) and rows (1, "a"), (2, NULL).
C11_SnapshotRestoreRoundTrip ==
    (RoundTripDone /\ werr = "nil") =>
        /\ results["bulk"].outcome = "returned"
        /\ results["bulk"].err = "nil"
        /\ results["bulk"].columns = wColumns
        /\ results["bulk"].resultData = wData
        /\ \A i \in 1..Len(wData) : \A k \in 1..Len(wData[i]) :
              results["bulk"].resultData[i][k].Valid = wData[i][k].Valid

\* the round trip of the table (1, "a"), (2, NULL) is complete
C11_Witness ==
    /\ RoundTripDone
    /\ werr = "nil"
    /\ wColumns = <<"id", "name">>
    /\ wData = <<<<Cell("1", TRUE), Cell("a", TRUE)>>, <<Cell("2", TRUE), NullCell>>>>
    /\ Len(execLog) = 2
    /\ results["bulk"].resultData[2][2] = NullCell

\* C12: for every cell c, present or absent, decoding the JSON encoding of c
\* succeeds and gives back c: a present cell with the same text, an absent
\* cell for an absent cell.
C12_JSONRoundTrip ==
    (ppc = "done" /\ pin.kind = "json") =>
        /\ pout.bytes = MarshalJSON(pin.cell)
        /\ pout.err = "nil"
        /\ pout.cell = pin.cell

\* a present cell comes back as it was
C12_PresentRoundTrip ==
    (ppc = "done" /\ pin.kind = "json" /\ pin.cell.Valid) =>
        pout.err = "nil" /\ pout.cell = pin.cell

PairingDone == ppc = "done" /\ pin.kind = "rowToMap"

\* the column names of the pairing are pairwise distinct
PairingDistinct ==
    \A i, j \in 1..Len(pin.columns) : pin.columns[i] = pin.columns[j] => i = j

ExactlyNKeysByIndex ==
    /\ Cardinality(DOMAIN pout.m) = Len(pin.row)
    /\ \A i \in 1..Len(pin.row) : pout.m[pin.columns[i]] = pin.row[i]

\* C13 as stated: for every positional row of N cells and every column-name
\* sequence of length N, the named row has exactly N keys and columns[i]
\* maps to row[i] for every i.
C13_NKeysByIndex == PairingDone => ExactlyNKeysByIndex

\* C13: the keys of the named row are the names of the sequence and every key
\* maps to a cell of its name; when the names are pairwise distinct there are
\* exactly N keys and columns[i] maps to row[i] for every i.
C13_NKeysByIndexDistinctColumns ==
    PairingDone =>
        /\ DOMAIN pout.m = {pin.columns[i] : i \in 1..Len(pin.columns)}
        /\ \A c \in DOMAIN pout.m :
              \E i \in 1..Len(pin.row) : pin.columns[i] = c /\ pout.m[c] = pin.row[i]
        /\ PairingDistinct => ExactlyNKeysByIndex

C13_Witness ==
    /\ PairingDone
    /\ pin.columns = <<"b", "a">>
    /\ pin.row = <<Cell("x", TRUE), NullCell>>
    /\ pout.m["b"] = Cell("x", TRUE)
    /\ pout.m["a"] = NullCell

\* C14 as stated: whenever the cell is absent or its text does not parse as
\* a value of the accessor's type, the D accessors return the default and
\* the others zero; GetBool is true iff GetInt is non-zero.
C14_AccessorsFallBack ==
    (ppc = "done" /\ pin.kind = "get") =>
        LET cell == GetCell(pin.row, pin.key)
            noInt == ~cell.Valid \/ ParseInt(cell.String).err # "nil"
            noUint == ~cell.Valid \/ ParseUint(cell.String).err # "nil"
        IN  /\ noInt => /\ pout.GetInt = 0
                        /\ pout.GetInt64 = 0
                        /\ pout.GetIntD = pin.def
            /\ noUint => /\ pout.GetUint = 0
                         /\ pout.GetUint64 = 0
                         /\ pout.GetUintD = pin.def
                         /\ pout.GetUint64D = pin.def
            /\ pout.GetBool = (pout.GetInt # 0)

\* what does hold: a text that is no numeral at all gives zero or the default
C14_NonNumericFallBack ==
    (ppc = "done" /\ pin.kind = "get"
        /\ GetString(pin.row, pin.key) \notin DOMAIN Numerals) =>
        /\ pout.GetInt = 0 /\ pout.GetInt64 = 0 /\ pout.GetIntD = pin.def
        /\ pout.GetUint = 0 /\ pout.GetUint64 = 0
        /\ pout.GetUintD = pin.def /\ pout.GetUint64D = pin.def
        /\ ~pout.GetBool

\* the failure of the prepare or of the execution step of a returned call
StepFailure(r) ==
    IF r.steps.prepare = "errPrepare" THEN "errPrepare"
    ELSE IF r.steps.exec = "errExec" THEN "errExec"
    ELSE "nil"

\* C15: with silent = false every failure of the prepare or of the execution
\* step that execute returns has been handed to the logging collaborator
\* before it returns; with silent = true nothing is handed to it and the
\* failure is still returned.
C15_FailuresLoggedUnlessSilent ==
    \A r \in xreturned :
        /\ StepFailure(r) # "nil" => r.err = StepFailure(r)
        /\ (~r.silent /\ StepFailure(r) # "nil") => r.logged = <<r.err>>
        /\ r.silent => r.logged = <<>>

\* the execution step's failure is logged unless silent, and silent calls
\* log nothing and return the failure
C15_ExecFailuresLoggedUnlessSilent ==
    \A r \in xreturned :
        /\ StepFailure(r) # "nil" => r.err = StepFailure(r)
        /\ (~r.silent /\ r.steps.exec = "errExec") => r.logged = <<r.err>>
        /\ r.silent => r.logged = <<>>

\* the completed calls for an identity
ReturnedFor(dsn) == {r \in returned : r.args.dataSourceName = dsn}

\* C16: a call returns exists = true iff the identity was mapped when the
\* call locked the mutex; of the successful calls for one identity exactly
\* one, the call that opened the handle, returns exists = false.
C16_ExistsIffMappedAtLock ==
    /\ \A p \in Callers : cpc[p] = "unlock" => cres[p].exists = ctrace[p].mapped
    /\ \A r \in returned : r.res.exists = r.trace.mapped
    /\ \A dsn \in DataSourceNames :
          /\ uncached[dsn] <= 1
          /\ ReturnedOK(dsn) # {} => uncached[dsn] = 1
          /\ \A r \in ReturnedOK(dsn) : ~r.res.exists <=> r.trace.open = "ok"

\* the opener and a later cache hit for one identity have both returned
C16_Witness ==
    \E dsn \in DataSourceNames :
        /\ uncached[dsn] = 1
        /\ \E r \in ReturnedOK(dsn) : ~r.res.exists /\ ~r.trace.mapped
        /\ \E r \in ReturnedOK(dsn) : r.res.exists /\ r.trace.mapped

\* calls that found the identity mapped perform no open and return the mapped
\* handle with exists = true
HitsReturnMapped ==
    /\ \A r \in returned :
          r.trace.mapped =>
              /\ r.trace.open = "none"
              /\ r.res = [db |-> r.trace.handle, exists |-> TRUE, err |-> "nil"]
              /\ r.res.db = knownDBs[r.args.dataSourceName]
    /\ \A p \in Callers :
          (cpc[p] \in {"check", "open", "unlock"} /\ ctrace[p].mapped) =>
              /\ cpc[p] # "open"
              /\ ctrace[p].open = "none"
              /\ knownDBs[cargs[p].dataSourceName] = ctrace[p].handle

\* an entry, once made, is never removed or replaced
EntriesKept ==
    \A dsn \in DataSourceNames :
        knownDBs[dsn] # NoHandle => knownDBs'[dsn] = knownDBs[dsn]

\* C19: the cache is keyed by dataSourceName alone and only grows: a mapped
\* entry is never removed or replaced, and every later call with that
\* dataSourceName, whatever driverName it passes, performs no open and
\* returns the mapped handle with exists = true.
C19_KeyedByIdentityMonotonic == [][EntriesKept]_vars /\ []HitsReturnMapped

\* a cache hit has returned a handle that was opened for another driverName
C19_Witness ==
    \E r \in returned :
        /\ r.trace.mapped
        /\ r.res.exists
        /\ r.res.db # NoHandle
        /\ r.res.db.driverName # r.args.driverName

\* a failed open returns the failure with exists = false and no handle, leaves
\* no entry, and the mutex is held only by calls between Lock and return;
\* every call that found the identity unmapped attempted an open
OpenFailureHandled ==
    /\ \A r \in returned :
          /\ r.trace.open = "failed" =>
                r.res = [db |-> NoHandle, exists |-> FALSE, err |-> "errOpen"]
          /\ ~r.trace.mapped => r.trace.open # "none"
    /\ \A p \in Callers :
          (cpc[p] = "unlock" /\ ctrace[p].open = "failed") =>
              /\ cres[p] = [db |-> NoHandle, exists |-> FALSE, err |-> "errOpen"]
              /\ knownDBs[cargs[p].dataSourceName] = NoHandle
    /\ \A dsn \in DataSourceNames : OpensOf(dsn) = 0 => knownDBs[dsn] = NoHandle
    /\ \A p \in Callers :
          knownDBsMutex = p => cpc[p] \in {"check", "open", "unlock"}
    /\ (\A p \in Callers : cpc[p] \in {"idle", "lock"}) => knownDBsMutex = NoCaller

\* every call in progress returns
CallsReturn == \A p \in Callers : (cpc[p] # "idle") ~> (cpc[p] = "idle")

\* C20: when the open fails the call returns the open failure with
\* exists = false, no entry is made for the identity and the mutex is
\* released, so every concurrent or later call eventually returns and a later
\* call for the identity attempts the open again.
C20_OpenFailureLeavesCacheUsable == []OpenFailureHandled /\ CallsReturn

\* an open for an identity failed, the failure was returned, and a later call
\* for the same identity has opened the handle and returned it
C20_Witness ==
    \E dsn \in DataSourceNames :
        /\ openFailures[dsn] >= 1
        /\ \E r \in ReturnedFor(dsn) : r.trace.open = "failed" /\ r.res.err = "errOpen"
        /\ \E r \in ReturnedFor(dsn) : r.trace.open = "ok" /\ r.res.db = knownDBs[dsn]
        /\ knownDBsMutex = NoCaller

\* a bulk run without column names that has got past db.QueryContext
BulkWithoutColumns ==
    /\ strategy = "bulk"
    /\ ~retrieveColumns
    /\ qpc \in {"scan", "sink", "exit", "returned", "panicked"}

\* C17: when the bulk strategy is invoked without column names
\* (retrieveColumns = false) rows.Columns() is never invoked during the call.
C17_NoColumnsCallWithoutFlag == BulkWithoutColumns => colCalls = 0

\* what does hold: the call of line 299 is skipped and no names are returned;
\* the one call left is that of ScanRowsToArrays
C17_OnlyScannerCallsColumns ==
    BulkWithoutColumns => colCalls <= 1 /\ columns = <<>>

\* the Scanner has been entered and no panic was injected
Scanning ==
    /\ strategy \in {"streaming", "bulk"}
    /\ qpc \in {"scan", "sink", "exit", "returned"}
    /\ rows # "nil"
    /\ ~injected

\* C18: ScanRowsToArrays invokes on_row exactly once per successful
\* rows.Next(), in cursor order, with a row of len(columns) cells; an
\* invocation has returned before the next rows.Next(); the scan ends only
\* when the cursor is exhausted or on_row fails, and a failing rows.Scan
\* neither stops the scan nor yields a failure.
C18_ScannerContract ==
    Scanning =>
        /\ Len(arrLog) = pos
        /\ advances = pos + (IF drained THEN 1 ELSE 0)
        /\ \A k \in 1..Len(arrLog) :
              /\ Len(arrLog[k]) = Len(tblColumns)
              /\ \A j \in 1..Len(tblColumns) :
                    arrLog[k][j] = IF scanFail.row = k /\ j >= scanFail.at
                                   THEN NullCell ELSE tblRecords[k][j]
        /\ strategy = "streaming" =>
              /\ Len(sinkLog) = Len(arrLog)
              /\ \A k \in 1..Len(arrLog) : sinkLog[k] = rowToMap(arrLog[k], tblColumns)
        /\ strategy = "bulk" => resultData = arrLog
        /\ qpc = "sink" => (advances = Len(arrLog) /\ sinkFail = NoSinkFail)
        /\ drained => pos = Len(tblRecords)
        /\ sinkFail # NoSinkFail =>
              (Len(arrLog) = sinkFail.sinks /\ advances = sinkFail.adv /\ err = sinkFail.err)
        /\ qpc \in {"exit", "returned"} =>
              /\ drained \/ sinkFail # NoSinkFail
              /\ sinkFail = NoSinkFail => (err = "nil" /\ Len(arrLog) = Len(tblRecords))

\* rows.Scan failed on the first of two records; the scan went on to the
\* second, whose on_row failed and ended it
C18_Witness ==
    /\ Scanning
    /\ strategy = "streaming"
    /\ qpc = "returned"
    /\ Len(tblRecords) = 2
    /\ scanFail.row = 1
    /\ tblRecords[1][scanFail.at] = Cell("x", TRUE)
    /\ arrLog[1][scanFail.at] = NullCell
    /\ Len(arrLog[1]) = Len(tblColumns)
    /\ sinkFail # NoSinkFail
    /\ sinkFail.sinks = 2
    /\ err = "errSinkA"

====
